---- MODULE Spec2Model ----
(***************************************************************************)
(* Setter.AI: the call table (call_history / active_calls), the lead       *)
(* monitoring thread with make_call, the Twilio webhook handlers and the   *)
(* AILogic conversation memory, as implemented in                          *)
(*   src/src/setter_ai/web/app.py, src/src/setter_ai/web/routes.py,        *)
(*   src/src/setter_ai/core/ai_logic.py,                                   *)
(*   src/src/setter_ai/integrations/ghl_integration.py.                    *)
(*                                                                         *)
(* Threads: one monitor thread (app.py:56-96) and one thread per webhook   *)
(* request.  A thread can be preempted between statements, so make_call is *)
(* split at its external call (the Twilio dial) and between the statements *)
(* that publish the session (app.py:125, 126, 137); a webhook handler is   *)
(* split at the OpenAI request inside generate_response, and between the   *)
(* test "call_id not in self.conversation_memory" and the assignment of a  *)
(* new list that follows it (ai_logic.py:69-70, 149-150).                  *)
(*                                                                         *)
(* Spec is the running program; SpecScript posts status callbacks to one   *)
(* session in order; SpecOpen calls make_call directly; SpecAnalyze        *)
(* applies the two analysis methods of AILogic to stored turns;            *)
(* SpecStartup runs create_app over the settings of the credentials        *)
(* (src/src/setter_ai/utils/config.py).                                    *)
(***************************************************************************)
EXTENDS Integers, Sequences, FiniteSets, Bags, TLC

\* ------------------------------------------------------------------ bounds
\* monitor ticks plus webhook requests in one behaviour; it also bounds the clock,
\* the turns a call can collect and the requests that can be in flight at once
MaxSteps == 3
\* turns of a conversation handed to the analysis methods
MaxTurns == 4

\* ------------------------------------------------------------- value sets
LeadIds == {"lead_a", "lead_b"}

\* call_id = f"call_{int(time.time())}_{lead id}" (app.py:110): a clock value and a
\* lead id. Clock value 0 is a call of an earlier run of the process.
CallIds == (0..MaxSteps) \X LeadIds
\* the call of an earlier run that Twilio may still report on
StrayId == <<0, "lead_a">>

\* the provider call id Twilio returns for an accepted dial (call.sid)
SidOf(cid) == <<"CA", cid[1], cid[2]>>
Sids == {SidOf(c) : c \in CallIds}

\* an absent request argument: request.args.get('call_id', '') / form.get('CallSid', '')
NoId == <<0, "">>
NoSid == <<"CA", 0, "">>
\* an entry without 'lead_info' or 'call_sid' (created by handle_call)
NoLead == "none"

\* CallStatus values Twilio posts; "queued" stands for a value outside status_mapping
CallStatuses ==
    {"initiated", "ringing", "answered", "completed", "busy", "failed",
     "no-answer", "canceled", "in-progress", "queued"}

\* the values posted in the interleaved specification: the four events make_call
\* subscribes to (twilio_integration.py:68) and a second terminal one
PostedStatuses == {"initiated", "ringing", "answered", "completed", "busy"}

TerminalStatuses == {"completed", "busy", "failed", "no-answer", "canceled"}

\* what the Lead Gateway can return on a tick: lists of leads, in gateway order
GatewayLists ==
    {<<>>, <<"lead_a">>, <<"lead_b">>, <<"lead_a", "lead_b">>, <<"lead_b", "lead_a">>}

\* the 'created_at' a lead carries (ghl_integration.py:65, 85), as a rank:
\* lead_a was created before lead_b.  The gateway's list order is its own.
created_at(lead) == IF lead = "lead_a" THEN 1 ELSE 2

AgentName == "Maayaa"
CallerName == "Caller"
Placeholder == "User spoke but no text was captured"
Apology == "I apologize, but I'm having trouble processing that right now. Could you please repeat?"
SpeechResults == {"", "tomorrow works"}
ReplyText == "generated reply"
\* the texts a completion can carry: generate_response treats every text alike
\* (ai_logic.py:64-79), so one text stands for all of them
Completions == {ReplyText}

\* --------------------------------------------------------------- helpers
\* d[k] = v on a Python dict
Put(d, k, v) == [x \in (DOMAIN d) \cup {k} |-> IF x = k THEN v ELSE d[x]]
\* d.get(k, default)
Get(d, k, default) == IF k \in DOMAIN d THEN d[k] ELSE default
EmptyDict == [x \in {} |-> 0]

RECURSIVE SelectSeqBy(_, _)
\* [x for x in s if x not in excluded]
SelectSeqBy(s, excluded) ==
    IF s = <<>> THEN <<>>
    ELSE IF Head(s) \in excluded THEN SelectSeqBy(Tail(s), excluded)
         ELSE <<Head(s)>> \o SelectSeqBy(Tail(s), excluded)

\* ------------------------------------------------------------ pure code
\* filter_available_leads without its membership test
filter_available_leads_unfiltered(leads, called_lead_ids) == leads

\* GHLIntegration.filter_available_leads, ghl_integration.py:104-108
filter_available_leads(leads, called_lead_ids) ==
    SelectSeqBy(leads, called_lead_ids)

\* the provider's status stored as it came, without the table
status_mapping_identity(call_status) == call_status

\* status_mapping.get(call_status, call_status), routes.py:362-374
status_mapping(call_status) ==
    CASE call_status = "initiated" -> "initiated"
      [] call_status = "ringing" -> "ringing"
      [] call_status = "answered" -> "active"
      [] call_status = "completed" -> "completed"
      [] call_status = "busy" -> "busy"
      [] call_status = "failed" -> "failed"
      [] call_status = "no-answer" -> "no-answer"
      [] call_status = "canceled" -> "canceled"
      [] call_status = "in-progress" -> "active"
      [] OTHER -> call_status

\* _build_system_prompt with "< 2" for "<= 2"
build_system_prompt_strict(conversation_length) ==
    IF conversation_length = 0 THEN "opening"
    ELSE IF conversation_length < 2 THEN "qualification"
    ELSE "scheduling"

\* AILogic._build_system_prompt, ai_logic.py:85-129: which of the three prompts
\* is returned
build_system_prompt(conversation_length) ==
    IF conversation_length = 0 THEN "opening"
    ELSE IF conversation_length <= 2 THEN "qualification"
    ELSE "scheduling"

\* --------------------------------------------- AILogic: outcome analysis
\* str.lower() on one character
LowerChar(c) ==
    CASE c = "A" -> "a" [] c = "B" -> "b" [] c = "C" -> "c" [] c = "D" -> "d"
      [] c = "E" -> "e" [] c = "F" -> "f" [] c = "G" -> "g" [] c = "H" -> "h"
      [] c = "I" -> "i" [] c = "J" -> "j" [] c = "K" -> "k" [] c = "L" -> "l"
      [] c = "M" -> "m" [] c = "N" -> "n" [] c = "O" -> "o" [] c = "P" -> "p"
      [] c = "Q" -> "q" [] c = "R" -> "r" [] c = "S" -> "s" [] c = "T" -> "t"
      [] c = "U" -> "u" [] c = "V" -> "v" [] c = "W" -> "w" [] c = "X" -> "x"
      [] c = "Y" -> "y" [] c = "Z" -> "z" [] OTHER -> c

RECURSIVE lower(_)
\* msg['content'].lower()
lower(s) ==
    IF Len(s) = 0 THEN ""
    ELSE LowerChar(SubSeq(s, 1, 1)) \o lower(SubSeq(s, 2, Len(s)))

\* keyword in content
Contains(keyword, content) ==
    \E i \in 1..(Len(content) - Len(keyword) + 1) :
        SubSeq(content, i, i + Len(keyword) - 1) = keyword

\* any(keyword in content for keyword in keywords)
AnyIn(keywords, content) == \E keyword \in keywords : Contains(keyword, content)

\* ai_logic.py:164-179
positive_keywords ==
    {"interested", "yes", "sure", "okay", "good", "great", "perfect", "meeting",
     "schedule", "tomorrow", "call back", "definitely", "absolutely", "of course",
     "sounds good", "that works"}
negative_keywords ==
    {"not interested", "no thanks", "busy", "not now", "later", "not available",
     "don't call", "stop calling", "no time", "too busy", "maybe later"}
meeting_keywords ==
    {"meeting", "schedule", "tomorrow", "3 p.m.", "3 pm", "appointment", "call back",
     "follow up", "set up", "book"}

\* the outcome branches with the negative test ahead of the positive ones
determine_outcome_negative_first(positive_response, negative_response, meeting_scheduled) ==
    IF negative_response THEN "negative"
    ELSE IF positive_response /\ meeting_scheduled THEN "positive_meeting"
    ELSE IF positive_response THEN "positive"
    ELSE "neutral"

\* ai_logic.py:199-206
determine_outcome(positive_response, negative_response, meeting_scheduled) ==
    IF positive_response /\ meeting_scheduled THEN "positive_meeting"
    ELSE IF positive_response THEN "positive"
    ELSE IF negative_response THEN "negative"
    ELSE "neutral"

\* analyze_conversation_outcome looking for the meeting keywords in every turn
analyze_conversation_outcome_any_speaker(conversation) ==
    LET turns == 1..Len(conversation)
        positive_response ==
            \E i \in turns : /\ conversation[i].speaker = CallerName
                             /\ AnyIn(positive_keywords, lower(conversation[i].content))
        negative_response ==
            \E i \in turns : /\ conversation[i].speaker = CallerName
                             /\ AnyIn(negative_keywords, lower(conversation[i].content))
        meeting_scheduled ==
            \E i \in turns : AnyIn(meeting_keywords, lower(conversation[i].content))
    IN [outcome |-> determine_outcome(positive_response, negative_response,
                                      meeting_scheduled),
        positive_response |-> positive_response,
        negative_response |-> negative_response,
        meeting_scheduled |-> meeting_scheduled,
        conversation_length |-> Len(conversation)]

\* analyze_conversation_outcome, ai_logic.py:158-215, on the turns stored for a
\* call. (The except branch, ai_logic.py:217-225, needs a turn without
\* 'content' or 'speaker'; no writer of conversation_memory stores one.)
analyze_conversation_outcome(conversation) ==
    LET turns == 1..Len(conversation)
        positive_response ==
            \E i \in turns : /\ conversation[i].speaker = CallerName
                             /\ AnyIn(positive_keywords, lower(conversation[i].content))
        negative_response ==
            \E i \in turns : /\ conversation[i].speaker = CallerName
                             /\ AnyIn(negative_keywords, lower(conversation[i].content))
        meeting_scheduled ==
            \E i \in turns : /\ conversation[i].speaker = AgentName
                             /\ AnyIn(meeting_keywords, lower(conversation[i].content))
    IN [outcome |-> determine_outcome(positive_response, negative_response,
                                      meeting_scheduled),
        positive_response |-> positive_response,
        negative_response |-> negative_response,
        meeting_scheduled |-> meeting_scheduled,
        conversation_length |-> Len(conversation)]

\* ai_logic.py:237 and 245
time_words ==
    {"pm", "am", "o'clock", "hour", "tomorrow", "today", "week", "3 p.m.", "3 pm", "3:00"}
confirmation_keywords == {"tomorrow", "3 p.m.", "3 pm", "schedule", "meeting"}

\* Python's None
None == "<None>"

\* the first turn of the speaker that contains one of the words (0: no such
\* turn): the turn at which a "for msg in conversation" loop breaks
FirstTurnWith(conversation, speaker, words) ==
    LET hits == {i \in 1..Len(conversation) :
                    /\ conversation[i].speaker = speaker
                    /\ AnyIn(words, lower(conversation[i].content))}
    IN IF hits = {} THEN 0 ELSE CHOOSE i \in hits : \A j \in hits : i <= j

\* extract_meeting_details, ai_logic.py:227-252: the loop over the caller's
\* turns, then the loop over the agent's turns, which runs whatever the first
\* loop found and assigns meeting_time again
extract_meeting_details(conversation) ==
    LET caller_turn == FirstTurnWith(conversation, CallerName, time_words)
        meeting_time == IF caller_turn = 0 THEN None
                        ELSE conversation[caller_turn].content
        agent_turn == FirstTurnWith(conversation, AgentName, confirmation_keywords)
    IN IF agent_turn = 0 THEN meeting_time
       ELSE LET content == lower(conversation[agent_turn].content) IN
            IF Contains("3 p.m.", content) \/ Contains("3 pm", content)
            THEN "3:00 PM MST"
            ELSE IF Contains("tomorrow", content) THEN "Tomorrow (Time TBD)"
            ELSE meeting_time

\* ------------------------------------------------------------------ state
VARIABLES
    call_history,        \* app.py:46   call_id -> call_info
    active_calls,        \* app.py:45   keys of active_calls (values alias call_history's)
    call_records,        \* table call_records: call_id -> row
    called_leads,        \* table called_leads: set of lead ids
    conversation_memory, \* AILogic.conversation_memory: call_id -> list of turns
    clock,               \* int(time.time()), one value per monitor tick
    mon,                 \* the monitor thread: position and locals in monitor/make_call
    inflight,            \* bag of webhook requests suspended in the OpenAI request
    dialed,              \* lead id -> dials Twilio accepted for it
    steps,               \* monitor ticks and webhook requests so far
    response,            \* the last HTTP response a webhook handler sent
    script,              \* SpecScript: status values still to be posted, in order
    applied,             \* SpecScript: status values posted so far, in order
    analysis,            \* SpecAnalyze: what the two analysis methods returned
    boot                 \* create_app: environment, config.json, position, what it set up

vars == <<call_history, active_calls, call_records, called_leads,
          conversation_memory, clock, mon, inflight, dialed, steps, response,
          script, applied, analysis, boot>>

\* the monitor thread asleep between ticks (app.py:88)
Idle == [pc |-> "idle", leads |-> <<>>, call_id |-> NoId, call_sid |-> NoSid,
         lead |-> NoLead]

\* an HTTP response: the status code, the text of <Say> (empty for a JSON body)
\* and the 'error' of a JSON body (empty for TwiML)
Response(code, say, error) == [code |-> code, say |-> say, error |-> error]
NoResponse == Response("none", "", "")

\* str(e) of the exceptions the handlers catch at routes.py:200, 285, 325, 417
MakeCallUndefined == "name 'make_call' is not defined"
SaveCallRecordUndefined == "name 'save_call_record' is not defined"
StoreAiResponseMissing == "'AILogic' object has no attribute 'store_ai_response'"

\* ----------------------------------------------------------- startup
\* the credentials _validate_required_keys requires, config.py:175-181
RequiredKeys ==
    {"ghl.api_key", "ghl.location_id", "openai.api_key",
     "twilio.account_sid", "twilio.auth_token"}

\* os.getenv(NAME, default) for an unset variable
Unset == "<unset>"

\* _merge_with_env_vars, config.py:46-71, on the required keys:
\* config[...] = os.getenv(NAME, config.get(...).get(key, ""))
merge_with_env_vars(env, file) ==
    [k \in RequiredKeys |-> IF env[k] = Unset THEN file[k] ELSE env[k]]

\* _validate_required_keys checking the GHL keys only
validate_required_keys_ghl_only(config) ==
    {k \in {"ghl.api_key", "ghl.location_id"} : config[k] = ""}

\* _validate_required_keys, config.py:173-205: the keys whose value is falsy;
\* it raises RuntimeError unless there is none
validate_required_keys(config) == {k \in RequiredKeys : config[k] = ""}

\* create_app has returned: routes registered, monitoring thread started
Serving ==
    [pc |-> "serving", env |-> [k \in RequiredKeys |-> "set"],
     file |-> [k \in RequiredKeys |-> ""], routes |-> TRUE, monitor |-> TRUE]

\* no analysis method has been called yet
NotAnalysed ==
    [outcome |-> [outcome |-> "pending", positive_response |-> FALSE,
                  negative_response |-> FALSE, meeting_scheduled |-> FALSE,
                  conversation_length |-> 0],
     meeting_time |-> "pending"]

\* the row an earlier run left in call_records for its call, if any
StrayRecord == [lead_id |-> StrayId[2], status |-> "completed", call_sid |-> SidOf(StrayId)]

Init ==
    /\ call_history = EmptyDict
    /\ active_calls = {}
    /\ call_records \in {EmptyDict, Put(EmptyDict, StrayId, StrayRecord)}
    /\ called_leads \in {{}, {"lead_b"}}
    /\ conversation_memory = EmptyDict
    /\ clock = 0
    /\ mon = Idle
    /\ inflight = EmptyBag
    /\ dialed = [l \in LeadIds |-> 0]
    /\ steps = 0
    /\ response = NoResponse
    /\ script = <<>>
    /\ applied = <<>>
    /\ analysis = NotAnalysed
    /\ boot = Serving

\* ------------------------------------------------- monitor and make_call
\* monitor, app.py:57-92, up to the Twilio request of make_call (app.py:110-113).
\* get_leads never raises (ghl_integration.py:96-98); it returns whatever list
\* the gateway (or the dummy-lead fallback) supplies.

\* no lead left after filtering: "No new leads to call" (app.py:84-85)
MonitorTickNoLeadOn(leads) ==
    /\ mon.pc = "idle"
    /\ steps < MaxSteps
    /\ filter_available_leads(leads, called_leads) = <<>>
    /\ clock' = clock + 1
    /\ steps' = steps + 1
    /\ UNCHANGED <<boot, analysis, script, applied, call_history, active_calls, call_records, called_leads,
                   conversation_memory, mon, inflight, dialed, response>>

MonitorTickNoLead == \E leads \in GatewayLists : MonitorTickNoLeadOn(leads)

\* available_leads[0] is dialed and Twilio accepts: (True, call.sid)
\* (app.py:71-78, 110-113; twilio_integration.py:61-73)
MonitorTickDialOn(leads) ==
    LET available_leads == filter_available_leads(leads, called_leads) IN
    /\ mon.pc = "idle"
    /\ steps < MaxSteps
    /\ available_leads # <<>>
    /\ LET lead == available_leads[1]
           call_id == <<clock + 1, lead>>
       IN /\ mon' = [pc |-> "dialed", leads |-> leads, call_id |-> call_id,
                     call_sid |-> SidOf(call_id), lead |-> lead]
          /\ dialed' = [dialed EXCEPT ![lead] = @ + 1]
    /\ clock' = clock + 1
    /\ steps' = steps + 1
    /\ UNCHANGED <<boot, analysis, script, applied, call_history, active_calls, call_records, called_leads,
                   conversation_memory, inflight, response>>

MonitorTickDial == \E leads \in GatewayLists : MonitorTickDialOn(leads)

\* a make_call that registered the session before dialing and left it behind
MakeCallDialFailsOn_registers(lead, now) ==
    /\ mon.pc = "idle"
    /\ steps < MaxSteps
    /\ call_history' = Put(call_history, <<now, lead>>,
           [call_sid |-> NoSid, lead_info |-> lead,
            lead_id |-> NoLead, status |-> "initiated"])
    /\ clock' = now
    /\ steps' = steps + 1
    /\ UNCHANGED <<boot, analysis, script, applied, active_calls, call_records, called_leads,
                   conversation_memory, mon, inflight, dialed, response>>

\* app.py:113 with twilio_integration.py:39-41 and 75-77: the dial is
\* refused.  make_call returns False at app.py:144-146 (provider said no) or
\* at 148-150 (the bare False of an unconfigured client does not unpack, and
\* the TypeError is caught); nothing was stored, because the stores at
\* app.py:125-137 come after the dial.
MakeCallDialFailsOn(lead, now) ==
    /\ mon.pc = "idle"
    /\ steps < MaxSteps
    /\ clock' = now
    /\ steps' = steps + 1
    /\ UNCHANGED <<boot, analysis, script, applied, call_history, active_calls, call_records, called_leads,
                   conversation_memory, mon, inflight, dialed, response>>

\* the monitor's available_leads[0] is dialed and the dial fails
\* (app.py:71-78); the loop goes on to its sleep
MonitorTickDialFailsOn(leads) ==
    LET available_leads == filter_available_leads(leads, called_leads)
    IN /\ available_leads # <<>>
       /\ MakeCallDialFailsOn(available_leads[1], clock + 1)

MonitorTickDialFails == \E leads \in GatewayLists : MonitorTickDialFailsOn(leads)

\* what get_leads returns when the fetch failed (credentials missing, a status
\* other than 200, or an exception): config.get('dummy_leads', []), the list
\* after the key dummy_leads of config.json, or [] without that key
\* (ghl_integration.py:32-34, 92-102)
DummyLeads == {<<>>, <<"lead_a">>}

\* a pass of the monitor loop whose fetch failed and fell back to dummy_leads
MonitorTickFetchFailedOn(dummy_leads) ==
    \/ MonitorTickNoLeadOn(dummy_leads)
    \/ MonitorTickDialOn(dummy_leads)
    \/ MonitorTickDialFailsOn(dummy_leads)

\* app.py:117-125: call_history[call_id] = call_info
MakeCallStore ==
    /\ mon.pc = "dialed"
    /\ call_history' = Put(call_history, mon.call_id,
           [call_sid |-> mon.call_sid, lead_info |-> mon.lead,
            lead_id |-> NoLead, status |-> "initiated"])
    /\ mon' = [mon EXCEPT !.pc = "stored", !.leads = <<>>]
    /\ UNCHANGED <<boot, analysis, script, applied, active_calls, call_records, called_leads, conversation_memory,
                   clock, inflight, dialed, steps, response>>

\* app.py:126: active_calls[call_id] = call_info
MakeCallActivate ==
    /\ mon.pc = "stored"
    /\ active_calls' = active_calls \cup {mon.call_id}
    /\ mon' = [mon EXCEPT !.pc = "activated"]
    /\ UNCHANGED <<boot, analysis, script, applied, call_history, call_records, called_leads, conversation_memory,
                   clock, inflight, dialed, steps, response>>

\* save_call_record, app.py:152-186: INSERT OR REPLACE of the row
save_call_record(records, call_id, call_info, call_result) ==
    Put(records, call_id,
        [lead_id |-> call_info.lead_info, status |-> call_result.status,
         call_sid |-> call_result.call_sid])

\* app.py:129-150: the initial record is saved, then
\* ghl_integration.mark_lead_as_called(lead) is called; GHLIntegration defines no
\* such method, so the call raises AttributeError, the except clause at
\* app.py:148-150 logs it and make_call returns False. called_leads is not written.
\* success is the value make_call returns.
MakeCallSaveReturns(success) ==
    /\ mon.pc = "activated"
    /\ success = FALSE
    /\ call_records' = save_call_record(call_records, mon.call_id,
           [lead_info |-> mon.lead],
           [status |-> "initiated", call_sid |-> mon.call_sid])
    /\ mon' = Idle
    /\ UNCHANGED <<boot, analysis, script, applied, call_history, active_calls, called_leads, conversation_memory,
                   clock, inflight, dialed, steps, response>>

MakeCallSave == \E success \in BOOLEAN : MakeCallSaveReturns(success)

\* --------------------------------------------------------- /call_status
\* routes.py:339-355: the call_id of the URL, else the in-memory session whose
\* call_sid matches, else the call_records row whose call_sid matches
find_call_id(call_id, call_sid) ==
    LET in_memory == {c \in DOMAIN call_history : call_history[c].call_sid = call_sid}
        in_db == {c \in DOMAIN call_records : call_records[c].call_sid = call_sid}
    IN IF call_id # NoId THEN call_id
       ELSE IF call_sid # NoSid /\ in_memory # {} THEN CHOOSE c \in in_memory : TRUE
       ELSE IF in_db # {} THEN CHOOSE c \in in_db : TRUE
       ELSE NoId

\* the status update applied to every session instead of the addressed one
update_call_history_all(history, call_id, mapped_status) ==
    IF call_id \in DOMAIN history
    THEN [c \in DOMAIN history |-> [history[c] EXCEPT !.status = mapped_status]]
    ELSE history

\* the status update creating the entry when the call_id is unknown
update_call_history_upsert(history, call_id, mapped_status) ==
    IF call_id \in DOMAIN history
    THEN [history EXCEPT ![call_id].status = mapped_status]
    ELSE Put(history, call_id,
             [call_sid |-> NoSid, lead_info |-> NoLead, lead_id |-> NoLead,
              status |-> mapped_status])

\* routes.py:377-378: call_history[call_id]['status'] = mapped_status
update_call_history(history, call_id, mapped_status) ==
    IF call_id \in DOMAIN history
    THEN [history EXCEPT ![call_id].status = mapped_status]
    ELSE history

\* routes.py:377, 380-382: del active_calls[call_id] on a terminal status
update_active_calls(history, active, call_id, mapped_status) ==
    IF call_id \in DOMAIN history /\ mapped_status \in TerminalStatuses
    THEN active \ {call_id}
    ELSE active

\* The calls Twilio knows: those it accepted a dial for in this run, and the
\* call of the earlier run.
KnownCalls ==
    {StrayId} \cup (DOMAIN call_records) \cup (DOMAIN call_history)
        \cup (IF mon.pc = "idle" THEN {} ELSE {mon.call_id})

\* The requests Twilio can post: the status callback URL carries the call_id
\* (twilio_integration.py:54) and the form the CallSid; a request without
\* call_id is correlated by CallSid alone.
StatusTargets ==
    {<<c, SidOf(c)>> : c \in KnownCalls}
        \cup {<<NoId, SidOf(c)>> : c \in KnownCalls} \cup {<<NoId, NoSid>>}

\* handle_call_status waiting for the generations of the addressed call to finish
HandleCallStatusOn_waiting(target, call_status) ==
    LET call_id == find_call_id(target[1], target[2])
        mapped_status == status_mapping(call_status)
    IN /\ steps < MaxSteps
       /\ \A req \in BagToSet(inflight) : req.call_id # call_id
       /\ IF call_id = NoId
          THEN /\ response' = [code |-> "400", say |-> "", error |-> "Call ID not found"]
               /\ UNCHANGED <<call_history, active_calls>>
          ELSE /\ call_history' = update_call_history(call_history, call_id, mapped_status)
               /\ active_calls' =
                     update_active_calls(call_history, active_calls, call_id, mapped_status)
               /\ response' = [code |-> "500", say |-> "",
                               error |-> "name 'save_call_record' is not defined"]
       /\ steps' = steps + 1
       /\ UNCHANGED <<call_records, called_leads, conversation_memory, clock, mon,
                      inflight, dialed>>

\* handle_call_status, routes.py:329-419. After the in-memory update the handler
\* calls save_call_record (routes.py:399), a name routes.py neither defines nor
\* imports: NameError, caught at routes.py:417-419, answer 500. The call_records
\* table is therefore not written by this handler.
HandleCallStatusOn(target, call_status) ==
    LET call_id == find_call_id(target[1], target[2])
        mapped_status == status_mapping(call_status)
    IN /\ steps < MaxSteps
       /\ IF call_id = NoId
          THEN /\ response' = Response("400", "", "Call ID not found")
               /\ UNCHANGED <<call_history, active_calls>>
          ELSE /\ call_history' = update_call_history(call_history, call_id, mapped_status)
               /\ active_calls' =
                     update_active_calls(call_history, active_calls, call_id, mapped_status)
               /\ response' = Response("500", "", SaveCallRecordUndefined)
       /\ steps' = steps + 1
       /\ UNCHANGED <<call_records, called_leads, conversation_memory, clock, mon,
                      inflight, dialed>>

HandleCallStatus ==
    /\ \E target \in StatusTargets, call_status \in PostedStatuses :
          HandleCallStatusOn(target, call_status)
    /\ UNCHANGED <<boot, analysis, script, applied>>

\* ------------------------------------------------------------- AILogic
Turn(speaker, content) == [speaker |-> speaker, content |-> content]

\* store_user_response, ai_logic.py:146-156 (call_id is non-empty at both call sites)
store_user_response(memory, call_id, user_response) ==
    Put(memory, call_id, Append(Get(memory, call_id, <<>>), Turn(CallerName, user_response)))

\* generate_response, ai_logic.py:67-76: the generated text is appended as an agent turn
store_generated(memory, call_id, ai_response) ==
    Put(memory, call_id, Append(Get(memory, call_id, <<>>), Turn(AgentName, ai_response)))

\* turns stored for a call
Turns(call_id) == Get(conversation_memory, call_id, <<>>)

\* A webhook request that is under way, and where its thread stands:
\*   "openai"  suspended in the OpenAI request of generate_response (ai_logic.py:58)
\*   "store"   in store_user_response, having found the call_id absent from
\*             conversation_memory (ai_logic.py:149), before line 150
\*   "append"  in generate_response, having found the call_id absent
\*             (ai_logic.py:69), before line 70
\* turn is the turn a thread at "store" or "append" is about to append.
NoTurn == Turn("", "")

\* ai_logic.py:33: exchanges of the history sent along with a request
conversation_memory_turns == 5

\* _build_messages, ai_logic.py:131-144: the system prompt, the last
\* conversation_memory_turns * 2 turns as user/assistant messages, and the
\* context, if any, as a last user message
build_messages(system_prompt, context, conversation_history) ==
    LET n == Len(conversation_history)
        first == IF n > conversation_memory_turns * 2
                 THEN n - conversation_memory_turns * 2 + 1 ELSE 1
        history == [i \in 1..(n - first + 1) |->
                      LET msg == conversation_history[first + i - 1]
                      IN [role |-> IF msg.speaker = AgentName THEN "assistant" ELSE "user",
                          content |-> msg.content]]
    IN <<[role |-> "system", content |-> system_prompt]>> \o history \o
       (IF context # "" THEN <<[role |-> "user", content |-> "Context: " \o context]>>
        ELSE <<>>)

\* generate_response reading the turns of another call in front of the call's own
Request_shared(route, call_id, memory) ==
    LET others == {c \in DOMAIN memory : c # call_id}
        own == Get(memory, call_id, <<>>)
        conversation_history ==
            IF others = {} THEN own ELSE memory[CHOOSE c \in others : TRUE] \o own
        conversation_length == Len(conversation_history)
        system_prompt == build_system_prompt(conversation_length)
        context == IF route = "handle_call" THEN ""
                   ELSE own[Len(own)].content
    IN [route |-> route, call_id |-> call_id, n |-> conversation_length,
        prompt |-> system_prompt,
        messages |-> build_messages(system_prompt, context, conversation_history),
        at |-> "openai", turn |-> NoTurn]

\* generate_response, ai_logic.py:47-55: the stored turns are read, their number
\* selects the prompt, the messages are built and the request is sent to OpenAI.
\* context is "" in handle_call (routes.py:267) and the caller's text, which the
\* handler has just stored as the last turn, in handle_call_response
\* (routes.py:304-308).
Request(route, call_id, memory) ==
    LET conversation_history == Get(memory, call_id, <<>>)
        conversation_length == Len(conversation_history)
        system_prompt == build_system_prompt(conversation_length)
        context == IF route = "handle_call" THEN ""
                   ELSE conversation_history[conversation_length].content
    IN [route |-> route, call_id |-> call_id, n |-> conversation_length,
        prompt |-> system_prompt,
        messages |-> build_messages(system_prompt, context, conversation_history),
        at |-> "openai", turn |-> NoTurn]

\* self.conversation_memory[call_id] = [] followed by the append
\* (ai_logic.py:70-72, 150-152), by a thread that found the call_id absent
init_and_append(memory, call_id, turn) == Put(memory, call_id, <<turn>>)

Requests == BagToSet(inflight)

\* --------------------------------------------------------- /handle_call
\* routes.py:253-254
HandleCallNoId ==
    /\ steps < MaxSteps
    /\ steps' = steps + 1
    /\ response' = Response("400", "", "Call ID required")
    /\ UNCHANGED <<boot, analysis, script, applied, call_history, active_calls, call_records, called_leads,
                   conversation_memory, clock, mon, inflight, dialed>>

\* routes.py:256-268 up to the OpenAI request. The webhook URL Twilio requests
\* carries the lead id the call_id was built from (twilio_integration.py:53).
HandleCallOn(call_id) ==
    /\ steps < MaxSteps
    /\ call_history' =
          IF call_id \notin DOMAIN call_history
          THEN Put(call_history, call_id,
                   [call_sid |-> NoSid, lead_info |-> NoLead,
                    lead_id |-> call_id[2], status |-> "initiated"])
          ELSE call_history
    /\ inflight' = inflight (+) SetToBag({Request("handle_call", call_id, conversation_memory)})
    /\ steps' = steps + 1
    /\ UNCHANGED <<boot, analysis, script, applied, active_calls, call_records, called_leads, conversation_memory,
                   clock, mon, dialed, response>>

HandleCall == \E call_id \in KnownCalls : HandleCallOn(call_id)

\* ----------------------------------------------------- /handle_response
\* routes.py:295-296
HandleResponseNoId ==
    /\ steps < MaxSteps
    /\ steps' = steps + 1
    /\ response' = Response("400", "", "Call ID required")
    /\ UNCHANGED <<boot, analysis, script, applied, call_history, active_calls, call_records, called_leads,
                   conversation_memory, clock, mon, inflight, dialed>>

\* handle_call_response returning early on an empty SpeechResult
HandleResponseOn_drops_empty(call_id, SpeechResult) ==
    LET memory == store_user_response(conversation_memory, call_id, SpeechResult)
    IN /\ steps < MaxSteps
       /\ IF SpeechResult = ""
          THEN UNCHANGED <<conversation_memory, inflight>>
          ELSE IF call_id \in DOMAIN conversation_memory
          THEN /\ conversation_memory' = memory
               /\ inflight' = inflight (+)
                     SetToBag({Request("handle_response", call_id, memory)})
          ELSE /\ inflight' = inflight (+)
                     SetToBag({[route |-> "handle_response", call_id |-> call_id,
                                n |-> 0, prompt |-> "", messages |-> <<>>, at |-> "store",
                                turn |-> [speaker |-> "Caller", content |-> SpeechResult]]})
               /\ UNCHANGED conversation_memory
       /\ steps' = steps + 1
       /\ UNCHANGED <<boot, analysis, script, applied, call_history, active_calls, call_records, called_leads,
                      clock, mon, dialed, response>>

\* routes.py:298-308. With the call_id in conversation_memory the caller's turn
\* is appended and the handler runs up to the OpenAI request; with the call_id
\* absent the thread stands between ai_logic.py:149 and 150.
HandleResponseOn(call_id, SpeechResult) ==
    LET user_response == IF SpeechResult = "" THEN Placeholder ELSE SpeechResult
        memory == store_user_response(conversation_memory, call_id, user_response)
    IN /\ steps < MaxSteps
       /\ IF call_id \in DOMAIN conversation_memory
          THEN /\ conversation_memory' = memory
               /\ inflight' = inflight (+)
                     SetToBag({Request("handle_response", call_id, memory)})
          ELSE /\ inflight' = inflight (+)
                     SetToBag({[route |-> "handle_response", call_id |-> call_id,
                                n |-> 0, prompt |-> "", messages |-> <<>>, at |-> "store",
                                turn |-> Turn(CallerName, user_response)]})
               /\ UNCHANGED conversation_memory
       /\ steps' = steps + 1
       /\ UNCHANGED <<boot, analysis, script, applied, call_history, active_calls, call_records, called_leads,
                      clock, mon, dialed, response>>

HandleResponse ==
    \E call_id \in KnownCalls, SpeechResult \in SpeechResults :
        HandleResponseOn(call_id, SpeechResult)

\* ai_logic.py:150-152, then routes.py:304-308 up to the OpenAI request: the
\* thread that found the call_id absent assigns a new list, whatever another
\* thread has stored meanwhile, and appends the caller's turn
StoreUserResponseInitOn(req) ==
    LET memory == init_and_append(conversation_memory, req.call_id, req.turn) IN
    /\ BagIn(req, inflight)
    /\ req.at = "store"
    /\ conversation_memory' = memory
    /\ inflight' = (inflight (-) SetToBag({req}))
                      (+) SetToBag({Request(req.route, req.call_id, memory)})
    /\ UNCHANGED <<boot, analysis, script, applied, call_history, active_calls, call_records, called_leads,
                   clock, mon, dialed, steps, response>>

StoreUserResponseInit == \E req \in Requests : StoreUserResponseInitOn(req)

\* ------------------------------------------- the OpenAI request returns
\* ai_logic.py:58-79: the completion's text is
\* appended as an agent turn and returned. Then the handler calls
\* ai_logic.store_ai_response (routes.py:271, 311), a method AILogic does not
\* define: AttributeError, caught at routes.py:285-287 / 325-327, answer 500.
\* With the call_id absent from conversation_memory at ai_logic.py:69 the
\* thread stands before line 70.
GenerationReturnsOn(req, ai_response) ==
    /\ BagIn(req, inflight)
    /\ req.at = "openai"
    /\ IF req.call_id \in DOMAIN conversation_memory
       THEN /\ conversation_memory' =
                  store_generated(conversation_memory, req.call_id, ai_response)
            /\ response' = Response("500", "", StoreAiResponseMissing)
            /\ inflight' = inflight (-) SetToBag({req})
       ELSE /\ inflight' = (inflight (-) SetToBag({req}))
                  (+) SetToBag({[req EXCEPT !.at = "append",
                                            !.turn = Turn(AgentName, ai_response)]})
            /\ UNCHANGED <<conversation_memory, response>>
    /\ UNCHANGED <<boot, analysis, script, applied, call_history, active_calls, call_records, called_leads,
                   clock, mon, dialed, steps>>

GenerationReturns ==
    \E req \in Requests, ai_response \in Completions :
        GenerationReturnsOn(req, ai_response)

\* ai_logic.py:81-83: the request (or anything before it in the try block)
\* raises; the apology is returned and nothing is appended. The handler then
\* fails on store_ai_response as above.
GenerationFailsOn(req) ==
    /\ BagIn(req, inflight)
    /\ req.at = "openai"
    /\ response' = Response("500", "", StoreAiResponseMissing)
    /\ inflight' = inflight (-) SetToBag({req})
    /\ UNCHANGED <<boot, analysis, script, applied, call_history, active_calls, call_records, called_leads,
                   conversation_memory, clock, mon, dialed, steps>>

GenerationFails == \E req \in Requests : GenerationFailsOn(req)

\* ai_logic.py:70-79, then routes.py:271 / 311: the thread that found the call_id
\* absent assigns a new list, whatever another thread has stored meanwhile,
\* appends the agent's turn and returns; the handler fails on store_ai_response
GenerationInitOn(req) ==
    /\ BagIn(req, inflight)
    /\ req.at = "append"
    /\ conversation_memory' = init_and_append(conversation_memory, req.call_id, req.turn)
    /\ response' = Response("500", "", StoreAiResponseMissing)
    /\ inflight' = inflight (-) SetToBag({req})
    /\ UNCHANGED <<boot, analysis, script, applied, call_history, active_calls, call_records, called_leads,
                   clock, mon, dialed, steps>>

GenerationInit == \E req \in Requests : GenerationInitOn(req)

\* ---------------------------------------------------------- /make_call
\* make_call_endpoint, routes.py:175-202: 400 without lead_id, 404 when
\* get_lead_by_id finds no lead; otherwise the handler calls make_call, a name
\* routes.py neither defines nor imports (it lives in app.py): NameError, caught
\* at routes.py:200-202, answer 500. No call is placed by this endpoint.
MakeCallEndpoint ==
    /\ steps < MaxSteps
    /\ \E answer \in {<<"400", "Lead ID required">>, <<"404", "Lead not found">>,
                       <<"500", MakeCallUndefined>>} :
          response' = Response(answer[1], "", answer[2])
    /\ steps' = steps + 1
    /\ UNCHANGED <<boot, analysis, script, applied, call_history, active_calls, call_records, called_leads,
                   conversation_memory, clock, mon, inflight, dialed>>

\* --------------------------------------------------------- specification
Next ==
    \/ MonitorTickNoLead
    \/ MonitorTickDial
    \/ MonitorTickDialFails
    \/ MakeCallStore
    \/ MakeCallActivate
    \/ MakeCallSave
    \/ HandleCallStatus
    \/ HandleCallNoId
    \/ HandleCall
    \/ HandleResponseNoId
    \/ HandleResponse
    \/ StoreUserResponseInit
    \/ GenerationReturns
    \/ GenerationFails
    \/ GenerationInit
    \/ MakeCallEndpoint

Spec == Init /\ [][Next]_vars

\* ------------------------------------------------ one session, in order
\* Status callbacks posted one after the other to one session that make_call
\* has just opened (the state of Spec after a tick dialed lead_a and make_call
\* returned), every sequence of up to MaxSteps values of CallStatuses.
ScriptId == <<1, "lead_a">>

RECURSIVE SeqsUpTo(_, _)
SeqsUpTo(S, n) ==
    IF n = 0 THEN {<<>>}
    ELSE LET shorter == SeqsUpTo(S, n - 1)
         IN shorter \cup {Append(q, x) : q \in shorter, x \in S}

Opened ==
    /\ call_history = Put(EmptyDict, ScriptId,
           [call_sid |-> SidOf(ScriptId), lead_info |-> ScriptId[2],
            lead_id |-> NoLead, status |-> "initiated"])
    /\ active_calls = {ScriptId}
    /\ call_records = Put(EmptyDict, ScriptId,
           [lead_id |-> ScriptId[2], status |-> "initiated", call_sid |-> SidOf(ScriptId)])
    /\ called_leads = {}
    /\ conversation_memory = EmptyDict
    /\ clock = 1
    /\ mon = Idle
    /\ inflight = EmptyBag
    /\ dialed = [l \in LeadIds |-> IF l = ScriptId[2] THEN 1 ELSE 0]
    /\ response = NoResponse
    /\ analysis = NotAnalysed
    /\ boot = Serving

InitScript ==
    /\ Opened
    /\ steps = 0
    /\ script \in SeqsUpTo(CallStatuses, MaxSteps)
    /\ applied = <<>>

PostNext ==
    /\ script # <<>>
    /\ HandleCallStatusOn(<<ScriptId, SidOf(ScriptId)>>, Head(script))
    /\ script' = Tail(script)
    /\ applied' = Append(applied, Head(script))
    /\ UNCHANGED <<analysis, boot>>

NextScript == PostNext

SpecScript == InitScript /\ [][NextScript]_vars

\* -------------------------------------------------- create_app, alone
\* create_app() for every setting of the required credentials: each environment
\* variable unset, set to the empty string or set to a value, each config.json
\* entry absent (read as "") or present.
InitStartup ==
    /\ call_history = EmptyDict
    /\ active_calls = {}
    /\ call_records = EmptyDict
    /\ called_leads = {}
    /\ conversation_memory = EmptyDict
    /\ clock = 0
    /\ mon = Idle
    /\ inflight = EmptyBag
    /\ dialed = [l \in LeadIds |-> 0]
    /\ steps = 0
    /\ response = NoResponse
    /\ script = <<>>
    /\ applied = <<>>
    /\ analysis = NotAnalysed
    /\ \E env \in [RequiredKeys -> {Unset, "", "set"}], file \in [RequiredKeys -> {"", "set"}] :
          boot = [pc |-> "start", env |-> env, file |-> file,
                  routes |-> FALSE, monitor |-> FALSE]

\* app.py:31; config.py:17-44: load_config merges, validates and returns, or
\* raises RuntimeError, which create_app does not catch
LoadConfig ==
    /\ boot.pc = "start"
    /\ LET config == merge_with_env_vars(boot.env, boot.file) IN
       boot' = [boot EXCEPT !.pc = IF validate_required_keys(config) = {}
                                   THEN "configured" ELSE "raised"]
    /\ UNCHANGED <<call_history, active_calls, call_records, called_leads,
                   conversation_memory, clock, mon, inflight, dialed, steps, response,
                   script, applied, analysis>>

\* app.py:35-51: components, database, register_routes
RegisterRoutes ==
    /\ boot.pc = "configured"
    /\ boot' = [boot EXCEPT !.pc = "registered", !.routes = TRUE]
    /\ UNCHANGED <<call_history, active_calls, call_records, called_leads,
                   conversation_memory, clock, mon, inflight, dialed, steps, response,
                   script, applied, analysis>>

\* app.py:53-103: the monitoring thread is started and create_app returns
StartMonitoring ==
    /\ boot.pc = "registered"
    /\ boot' = [boot EXCEPT !.pc = "serving", !.monitor = TRUE]
    /\ UNCHANGED <<call_history, active_calls, call_records, called_leads,
                   conversation_memory, clock, mon, inflight, dialed, steps, response,
                   script, applied, analysis>>

NextStartup == LoadConfig \/ RegisterRoutes \/ StartMonitoring

SpecStartup == InitStartup /\ [][NextStartup]_vars

\* ------------------------------------------------- make_call, directly
\* make_call(lead, ...) called one call after the other by a caller other than
\* the monitor loop (the /make_call and /test_call handlers are written to do
\* so), for every lead and with the clock second either the same as at the
\* previous call or the next one. app.py:110-113 with an accepted dial.
MakeCallDialOn(lead, now) ==
    /\ mon.pc = "idle"
    /\ steps < MaxSteps
    /\ LET call_id == <<now, lead>>
       IN mon' = [pc |-> "dialed", leads |-> <<>>, call_id |-> call_id,
                  call_sid |-> SidOf(call_id), lead |-> lead]
    /\ dialed' = [dialed EXCEPT ![lead] = @ + 1]
    /\ clock' = now
    /\ steps' = steps + 1
    /\ UNCHANGED <<boot, analysis, script, applied, call_history, active_calls, call_records, called_leads,
                   conversation_memory, inflight, response>>

MakeCallDial ==
    \E lead \in LeadIds, now \in {clock, clock + 1} :
        now >= 1 /\ MakeCallDialOn(lead, now)

MakeCallDialFails ==
    \E lead \in LeadIds, now \in {clock, clock + 1} :
        now >= 1 /\ MakeCallDialFailsOn(lead, now)

NextOpen ==
    \/ MakeCallDial
    \/ MakeCallDialFails
    \/ MakeCallStore
    \/ MakeCallActivate
    \/ MakeCallSave

SpecOpen == Init /\ [][NextOpen]_vars

\* ------------------------------------------- the analysis of one call
\* analyze_conversation_outcome and extract_meeting_details applied to the turns
\* stored for one call, for every list of up to MaxTurns turns drawn from
\* AnalysisTurns (the turns of the documented outcome scenario, a refusal, and
\* agent turns with and without a confirmation).
AnalysisTurns ==
    {Turn(CallerName, "I need equipment financing"),
     Turn(CallerName, "around $50,000 for kitchen equipment"),
     Turn(CallerName, "tomorrow at 3 PM would work"),
     Turn(CallerName, "no thanks"),
     Turn(AgentName, "I've scheduled your meeting for 3 p.m. tomorrow"),
     Turn(AgentName, "Ryan will call you back tomorrow"),
     Turn(AgentName, "What amount are you considering?")}

InitAnalyze ==
    /\ call_history = EmptyDict
    /\ active_calls = {}
    /\ call_records = EmptyDict
    /\ called_leads = {}
    /\ conversation_memory \in
          {Put(EmptyDict, ScriptId, conversation) :
              conversation \in SeqsUpTo(AnalysisTurns, MaxTurns)}
    /\ clock = 0
    /\ mon = Idle
    /\ inflight = EmptyBag
    /\ dialed = [l \in LeadIds |-> 0]
    /\ steps = 0
    /\ response = NoResponse
    /\ script = <<>>
    /\ applied = <<>>
    /\ analysis = NotAnalysed
    /\ boot = Serving

\* ai_logic.analyze_conversation_outcome(call_id)
AnalyzeOutcomeOn(call_id) ==
    /\ analysis' = [analysis EXCEPT
                       !.outcome = analyze_conversation_outcome(Turns(call_id))]
    /\ UNCHANGED <<call_history, active_calls, call_records, called_leads,
                   conversation_memory, clock, mon, inflight, dialed, steps, response,
                   script, applied, boot>>

AnalyzeOutcome ==
    /\ analysis.outcome = NotAnalysed.outcome
    /\ AnalyzeOutcomeOn(ScriptId)

\* ai_logic.extract_meeting_details(call_id)
ExtractMeeting ==
    /\ analysis.meeting_time = NotAnalysed.meeting_time
    /\ analysis' = [analysis EXCEPT
                       !.meeting_time = extract_meeting_details(Turns(ScriptId))]
    /\ UNCHANGED <<call_history, active_calls, call_records, called_leads,
                   conversation_memory, clock, mon, inflight, dialed, steps, response,
                   script, applied, boot>>

NextAnalyze == AnalyzeOutcome \/ ExtractMeeting

SpecAnalyze == InitAnalyze /\ [][NextAnalyze]_vars

\* ------------------------------------------ the webhook flow of a call
\* The webhooks as Twilio sends them for a call: /handle_call once, then
\* /handle_response for each recording, one request of a call at a time, every
\* OpenAI request returning a completion; two calls side by side, and the
\* outcome analysis applied to either.
InitFlow ==
    /\ Opened
    /\ steps = 0
    /\ script = <<>>
    /\ applied = <<>>

Answered(call_id) == \A req \in Requests : req.call_id # call_id

FlowHandleCall ==
    \E call_id \in KnownCalls :
        /\ Answered(call_id)
        /\ call_id \notin DOMAIN conversation_memory
        /\ HandleCallOn(call_id)

FlowHandleResponse ==
    \E call_id \in KnownCalls, SpeechResult \in SpeechResults :
        /\ Answered(call_id)
        /\ call_id \in DOMAIN conversation_memory
        /\ HandleResponseOn(call_id, SpeechResult)

FlowAnalyze ==
    \E call_id \in KnownCalls :
        /\ analysis.outcome = NotAnalysed.outcome
        /\ AnalyzeOutcomeOn(call_id)

NextFlow ==
    \/ FlowHandleCall
    \/ FlowHandleResponse
    \/ GenerationReturns
    \/ GenerationInit
    \/ FlowAnalyze

SpecFlow == InitFlow /\ [][NextFlow]_vars

\* ------------------------------------------------------------------ claims
StatusOf(history, call_id) == history[call_id].status

IsTerminal(history, call_id) ==
    call_id \in DOMAIN history /\ StatusOf(history, call_id) \in TerminalStatuses

\* a step of handle_call_status, for any request it can receive
StatusPosted(call_status) ==
    \E target \in StatusTargets : HandleCallStatusOn(target, call_status)

\* C1: once a session's status is terminal, no event applied by
\* handle_call_status makes it non-terminal.
C1_TerminalAbsorbing ==
    [][\A call_status \in PostedStatuses :
          StatusPosted(call_status) =>
             \A c \in DOMAIN call_history :
                IsTerminal(call_history, c) => IsTerminal(call_history', c)]_vars

\* C2: a terminal event applied to a session that is already terminal leaves
\* the first-recorded terminal status in place.
C2_FirstTerminalKept ==
    [][\A call_status \in PostedStatuses :
          (StatusPosted(call_status) /\ status_mapping(call_status) \in TerminalStatuses) =>
             \A c \in DOMAIN call_history :
                IsTerminal(call_history, c) =>
                   StatusOf(call_history', c) = StatusOf(call_history, c)]_vars

\* C3: posted to a freshly opened session, both [ringing, answered, completed]
\* and [completed, ringing, answered] leave the session completed.
C3_OrderTolerance ==
    (/\ script = <<>>
     /\ applied \in {<<"ringing", "answered", "completed">>,
                     <<"completed", "ringing", "answered">>})
       => StatusOf(call_history, ScriptId) = "completed"

\* C4: an event whose mapped status equals the session's current status leaves
\* the session's status and its membership in active_calls unchanged.
C4_Idempotent ==
    [][\A target \in StatusTargets, call_status \in PostedStatuses :
          LET c == find_call_id(target[1], target[2]) IN
          (/\ HandleCallStatusOn(target, call_status)
           /\ c \in DOMAIN call_history
           /\ StatusOf(call_history, c) = status_mapping(call_status))
             => /\ call_history'[c] = call_history[c]
                /\ (c \in active_calls') = (c \in active_calls)]_vars

\* sessions make_call opened for a lead that are not in a terminal status
OpenSessions(lead) ==
    {c \in DOMAIN call_history :
        call_history[c].lead_info = lead /\ ~IsTerminal(call_history, c)}

\* C5: at most one open (non-terminal) session exists per lead at any time.
C5_OneOpenSessionPerLead ==
    \A lead \in LeadIds : Cardinality(OpenSessions(lead)) <= 1

\* the positions of leads that are not in the called set, and the k-th of them
KeptPositions(leads, called) == {i \in 1..Len(leads) : leads[i] \notin called}
KthKept(leads, called, k) ==
    CHOOSE i \in KeptPositions(leads, called) :
        Cardinality({j \in KeptPositions(leads, called) : j < i}) = k - 1

\* filter_available_leads(leads, called) is exactly the leads not in called, in order
FilterExact(leads, called) ==
    LET available == filter_available_leads(leads, called) IN
    /\ Len(available) = Cardinality(KeptPositions(leads, called))
    /\ \A k \in 1..Len(available) : available[k] = leads[KthKept(leads, called, k)]

\* C6: filter_available_leads returns exactly the fetched leads whose id is not
\* in called_leads, in their original order, whatever the gateway returns; and
\* the lead a tick dials is the first of them, so it is never in called_leads.
C6_Dedup ==
    /\ \A leads \in GatewayLists : FilterExact(leads, called_leads)
    /\ mon.pc = "dialed" =>
          /\ mon.lead \notin called_leads
          /\ mon.lead = mon.leads[KthKept(mon.leads, called_leads, 1)]

\* C6 witness: a tick dialed a lead while the gateway still returned a lead
\* that is in called_leads.
C6_Witness ==
    /\ mon.pc = "dialed"
    /\ \E i \in 1..Len(mon.leads) : mon.leads[i] \in called_leads

\* C7: a lead the scheduler has dialed is in called_leads once make_call has
\* returned, and no lead is dialed twice.
C7_DialedOnce ==
    \A lead \in LeadIds :
       /\ (dialed[lead] >= 1 /\ mon.pc = "idle") => lead \in called_leads
       /\ dialed[lead] <= 1

\* C8: when the generation fails, the apology is appended as a turn: the call's
\* turn list grows by exactly one.
C8_FallbackAppends ==
    [][\A req \in Requests :
          GenerationFailsOn(req) =>
             LET before == Turns(req.call_id)
                 after == Get(conversation_memory', req.call_id, <<>>)
             IN after = Append(before, Turn(AgentName, Apology))]_vars

\* C9: every handle_call / handle_response request that carries a call_id is
\* answered with a spoken utterance (the generated text or the apology), never
\* with an error response.
C9_AlwaysAnswered ==
    [][\A req \in Requests :
          /\ GenerationFailsOn(req) =>
                (response'.code = "200" /\ response'.say = Apology)
          /\ \A ai_response \in Completions :
                GenerationReturnsOn(req, ai_response) =>
                   (response'.code = "200" /\ response'.say = ai_response)]_vars

\* the prompt the stage rule assigns to a number of stored turns
StageFor(turn_count) ==
    CASE turn_count = 0 -> "opening"
      [] turn_count \in {1, 2} -> "qualification"
      [] turn_count > 2 -> "scheduling"

\* C10: the prompt of a generation is decided by the number of turns stored for
\* the call when the generation starts: opening for 0, qualification for 1 or
\* 2, scheduling for more than 2.
C10_StageSelection ==
    [][\A req \in BagToSet(inflight') :
          (req.at = "openai" /\ CopiesIn(req, inflight') > CopiesIn(req, inflight)) =>
             /\ req.n = Len(Get(conversation_memory', req.call_id, <<>>))
             /\ req.prompt = StageFor(req.n)]_vars

\* C10 witness: a generation started with three turns stored and the scheduling prompt.
C10_Witness ==
    \E req \in Requests : req.n = 3 /\ req.prompt = "scheduling"

\* the outcome the precedence rule assigns to the three signals
OutcomeByPrecedence(positive, negative, meeting) ==
    CASE positive /\ meeting -> "positive_meeting"
      [] positive /\ ~meeting -> "positive"
      [] ~positive /\ negative -> "negative"
      [] ~positive /\ ~negative -> "neutral"

\* C11: the outcome analyze_conversation_outcome returns is the one the
\* precedence rule assigns to the three signals it returns: positive_meeting if
\* positive and meeting, else positive if positive, else negative if negative,
\* else neutral.
C11_OutcomePrecedence ==
    LET result == analysis.outcome IN
    result.outcome # "pending" =>
        result.outcome = OutcomeByPrecedence(result.positive_response,
                                             result.negative_response,
                                             result.meeting_scheduled)

\* C11 witness: a conversation with both a positive and a negative caller turn
\* and no agent confirmation was analysed as positive.
C11_Witness ==
    LET result == analysis.outcome IN
    /\ result.positive_response /\ result.negative_response
    /\ ~result.meeting_scheduled
    /\ result.outcome = "positive"

\* the turns of the documented outcome scenario
ScenarioTurns ==
    <<Turn(CallerName, "I need equipment financing"),
      Turn(CallerName, "around $50,000 for kitchen equipment"),
      Turn(CallerName, "tomorrow at 3 PM would work"),
      Turn(AgentName, "I've scheduled your meeting for 3 p.m. tomorrow")>>

\* C12: when a caller turn contains a time word, the extracted meeting time is
\* the text of the first such caller turn, whatever the agent turns say; and for
\* the turns of the outcome scenario it is "tomorrow at 3 PM would work".
C12_CallerTurnFirst ==
    LET conversation == Turns(ScriptId)
        caller_turn == FirstTurnWith(conversation, CallerName, time_words)
    IN analysis.meeting_time # "pending" =>
          /\ caller_turn # 0 =>
                analysis.meeting_time = conversation[caller_turn].content
          /\ conversation = ScenarioTurns =>
                analysis.meeting_time = "tomorrow at 3 PM would work"

\* C13: a call whose persisted record is terminal has no non-terminal session in
\* memory: no webhook for it creates one.
C13_NoReopen ==
    \A c \in DOMAIN call_records :
        call_records[c].status \in TerminalStatuses =>
            (c \in DOMAIN call_history => IsTerminal(call_history, c))

\* sessions make_call has stored for a lead
SessionsOf(lead) == {c \in DOMAIN call_history : call_history[c].lead_info = lead}

\* C16: every call of make_call gets a call_id of its own: once make_call has
\* returned, each lead has as many sessions as dials were accepted for it.
C16_UniqueCallIds ==
    mon.pc = "idle" =>
        \A lead \in LeadIds : Cardinality(SessionsOf(lead)) = dialed[lead]

\* the calls whose session, status, membership in active_calls or turns differ
\* across the step
Changed ==
    {b \in (DOMAIN call_history') \cup (DOMAIN conversation_memory') :
        \/ b \notin DOMAIN call_history /\ b \in DOMAIN call_history'
        \/ b \in DOMAIN call_history /\ StatusOf(call_history', b) # StatusOf(call_history, b)
        \/ (b \in active_calls') # (b \in active_calls)
        \/ Get(conversation_memory', b, <<>>) # Turns(b)}

\* C14: a webhook for one call_id (a status event, the answer webhook, a speech
\* result, or a step of its generation) changes neither the session, the status
\* nor the turns of any other call, in every interleaving: whenever a step is
\* such a webhook for call c, the calls changed by the step are within {c}.
\* (A status event leaves inflight and conversation_memory alone and every other
\* webhook step changes inflight, so each step is compared with the handlers of
\* its own kind only.)
C14_Isolation ==
    [][UNCHANGED <<call_history, active_calls, conversation_memory>> \/
       LET changed == Changed IN
       /\ (inflight' = inflight /\ conversation_memory' = conversation_memory) =>
             \A target \in StatusTargets :
                LET c == find_call_id(target[1], target[2]) IN
                (changed \subseteq {c}) \/
                \A call_status \in PostedStatuses :
                   ~HandleCallStatusOn(target, call_status)
       /\ (inflight' # inflight) =>
             /\ \A c \in KnownCalls : (changed \subseteq {c}) \/ ~HandleCallOn(c)
             /\ \A c \in KnownCalls :
                   (changed \subseteq {c}) \/
                   \A SpeechResult \in SpeechResults : ~HandleResponseOn(c, SpeechResult)
             /\ \A req \in Requests :
                   (changed \subseteq {req.call_id}) \/
                   ~(\/ StoreUserResponseInitOn(req)
                     \/ GenerationFailsOn(req)
                     \/ GenerationInitOn(req)
                     \/ \E ai_response \in Completions :
                           GenerationReturnsOn(req, ai_response))]_vars

\* C14 witness: two sessions exist, a status event has just completed one of
\* them, and the other is still as it was created.
C14_Witness ==
    /\ response.error = SaveCallRecordUndefined
    /\ \E a, b \in DOMAIN call_history :
          /\ a # b
          /\ StatusOf(call_history, a) = "completed"
          /\ StatusOf(call_history, b) = "initiated"

\* s is an initial part of t
IsPrefix(s, t) == Len(s) <= Len(t) /\ SubSeq(t, 1, Len(s)) = s

\* C15: in every step the turns stored for a call before the step are an
\* initial part of the turns stored for it after the step.
C15_AppendOnly ==
    [][\A c \in DOMAIN conversation_memory :
          /\ c \in DOMAIN conversation_memory'
          /\ IsPrefix(conversation_memory[c], conversation_memory'[c])]_vars

\* C17: when a status event moves a session into a terminal status, the outcome
\* analysis is run and the session is written to call_records with that status.
C17_TerminalFinalizes ==
    [][\A target \in StatusTargets, call_status \in PostedStatuses :
          LET c == find_call_id(target[1], target[2]) IN
          (/\ HandleCallStatusOn(target, call_status)
           /\ c \in DOMAIN call_history
           /\ ~IsTerminal(call_history, c)
           /\ status_mapping(call_status) \in TerminalStatuses)
             => /\ analysis'.outcome.outcome # "pending"
                /\ c \in DOMAIN call_records'
                /\ call_records'[c].status = status_mapping(call_status)]_vars

C19_SameSessionSerialized ==
    \A r1, r2 \in Requests :
        (/\ r1.route = "handle_response"
         /\ r2.route = "handle_response"
         /\ r1.call_id = r2.call_id)
           => (r1 = r2 /\ CopiesIn(r1, inflight) = 1)

\* C20: while a generation is suspended in the OpenAI request, a status event,
\* terminal or not, for the same call or for any other call can be handled at
\* once.
C20_NoLockAroundGeneration ==
    \A req \in Requests :
        (req.at = "openai" /\ steps < MaxSteps) =>
            \A c \in KnownCalls, call_status \in PostedStatuses :
                ENABLED HandleCallStatusOn(<<c, SidOf(c)>>, call_status)

\* C20 witness: the answer webhook created a session and is still waiting for
\* OpenAI, and the one other request so far, a status event, has made that
\* session terminal.
C20_Witness ==
    /\ steps = 2
    /\ \E req \in Requests :
          /\ req.at = "openai"
          /\ req.route = "handle_call"
          /\ call_history[req.call_id].call_sid = NoSid
          /\ IsTerminal(call_history, req.call_id)

\* the required credentials that are absent: no value from the environment
\* (unset or empty) and, with the variable unset, none in config.json
AbsentCredentials ==
    {k \in RequiredKeys :
        \/ boot.env[k] = ""
        \/ boot.env[k] = Unset /\ boot.file[k] = ""}

\* C21: with a required credential absent, load_config raises: create_app never
\* gets past it, registers no route and starts no monitoring thread.
C21_FatalAtStartup ==
    AbsentCredentials # {} =>
        /\ boot.pc \in {"start", "raised"}
        /\ ~boot.routes
        /\ ~boot.monitor

\* C21 witness: only the Twilio auth token is absent and load_config has raised.
C21_Witness ==
    /\ AbsentCredentials = {"twilio.auth_token"}
    /\ boot.pc = "raised"

\* C22: a refused dial is recovered inside make_call: the step returns to the
\* caller (the monitor is back at its loop, nothing is left in flight) and both
\* call_history and active_calls are what they were: the failed attempt added
\* no entry to either.
C22_DialFailureRecovered ==
    [][\A lead \in LeadIds, now \in {clock, clock + 1} :
          MakeCallDialFailsOn(lead, now) =>
             /\ UNCHANGED <<call_history, active_calls>>
             /\ mon' = Idle]_vars

\* C22 witness: a first make_call was refused by the provider: time has passed
\* on an attempt, no dial was accepted and the tables are empty.
C22_Witness ==
    /\ steps = 1
    /\ clock = 1
    /\ \A l \in LeadIds : dialed[l] = 0
    /\ call_history = EmptyDict
    /\ active_calls = {}
    /\ mon = Idle

\* C23: a snapshot write that fails while a status event is handled is
\* harmless: the session in memory has the status the event maps to and the
\* handler completes successfully (answers 200).  In handle_call_status the
\* write fails on every event that found a call id.
C23_SnapshotFailureHarmless ==
    [][\A target \in StatusTargets, call_status \in PostedStatuses :
          LET c == find_call_id(target[1], target[2]) IN
          (HandleCallStatusOn(target, call_status) /\ c \in DOMAIN call_history) =>
             /\ StatusOf(call_history', c) = status_mapping(call_status)
             /\ response'.code = "200"]_vars

\* C24: make_call puts the session into call_history before it asks the
\* provider to dial: whenever the dial request has been issued (and has
\* returned its sid), the session of that call id is in call_history.
C24_SessionBeforeDial ==
    mon.pc = "dialed" => mon.call_id \in DOMAIN call_history

\* C25: the lead a tick hands to make_call is the earliest created of the
\* leads left after filtering out the called ones.
C25_EarliestCreatedFirst ==
    mon.pc = "dialed" =>
        LET remaining == filter_available_leads(mon.leads, called_leads) IN
        \A i \in 1..Len(remaining) : created_at(mon.lead) <= created_at(remaining[i])

\* C26: a tick whose lead fetch failed dials no lead: the monitor is back at
\* its loop with no dial issued.
C26_FetchFailureSkipsTick ==
    [][\A dummy_leads \in DummyLeads :
          MonitorTickFetchFailedOn(dummy_leads) =>
             /\ dialed' = dialed
             /\ mon' = Idle]_vars

\* the position of a status on the lifecycle the claim describes:
\* DIALING (initiated), RINGING, ACTIVE, then the terminal statuses
LifecycleRank(status) ==
    CASE status = "initiated" -> 1
      [] status = "ringing" -> 2
      [] status = "active" -> 3
      [] status \in TerminalStatuses -> 4
      [] OTHER -> 0

\* C27: the status of a session only moves forward along the lifecycle: a step
\* that changes it takes it to a status further along, so an event that maps to
\* an earlier status (ringing or initiated after ACTIVE) changes nothing.
C27_ForwardOnly ==
    [][\A c \in DOMAIN call_history :
          (c \in DOMAIN call_history' /\
           StatusOf(call_history', c) # StatusOf(call_history, c)) =>
             LifecycleRank(StatusOf(call_history', c)) >
                LifecycleRank(StatusOf(call_history, c))]_vars

\* C28: a status event whose call_id names no session in call_history (or is
\* missing) and whose CallSid is the call_sid of a session is applied to that
\* session: to the one in call_history if there is one, else to the row of
\* call_records.
C28_CorrelationOrder ==
    [][\A target \in StatusTargets, call_status \in PostedStatuses :
          LET in_memory == {c \in DOMAIN call_history :
                               call_history[c].call_sid = target[2]}
              in_db == {c \in DOMAIN call_records :
                           call_records[c].call_sid = target[2]}
              mapped_status == status_mapping(call_status)
          IN (/\ HandleCallStatusOn(target, call_status)
              /\ target[1] \notin DOMAIN call_history
              /\ target[2] # NoSid) =>
                IF in_memory # {}
                THEN \E c \in in_memory : StatusOf(call_history', c) = mapped_status
                ELSE in_db # {} =>
                        \E c \in in_db :
                           \/ call_records'[c].status = mapped_status
                           \/ /\ c \in DOMAIN call_history'
                              /\ StatusOf(call_history', c) = mapped_status]_vars

\* the table of provider event kinds and session states the claim gives
KindToState ==
    ("initiated" :> "initiated") @@ ("ringing" :> "ringing") @@
    ("answered" :> "active") @@ ("in-progress" :> "active") @@
    ("completed" :> "completed") @@ ("busy" :> "busy") @@ ("failed" :> "failed") @@
    ("no-answer" :> "no-answer") @@ ("canceled" :> "canceled")

\* C29: after a status event of one of the nine kinds of the table has been
\* handled for a session, the session's status is the state the table gives for
\* that kind, whatever the status was before.
C29_StatusMapping ==
    (applied # <<>> /\ applied[Len(applied)] \in DOMAIN KindToState) =>
        StatusOf(call_history, ScriptId) = KindToState[applied[Len(applied)]]

\* C29 witness: in-progress was posted after a terminal event and the session
\* is active.
C29_Witness ==
    /\ Len(applied) = 2
    /\ applied[1] = "failed"
    /\ applied[2] = "in-progress"
    /\ StatusOf(call_history, ScriptId) = "active"

\* a step of handle_response: the handler up to its first store or request, or
\* a later step of one of its requests
HandleResponseStep ==
    \/ \E call_id \in KnownCalls, SpeechResult \in SpeechResults :
          HandleResponseOn(call_id, SpeechResult)
    \/ \E req \in BagToSet(inflight) :
          /\ req.route = "handle_response"
          /\ \/ StoreUserResponseInitOn(req)
             \/ GenerationInitOn(req)
             \/ GenerationFailsOn(req)
             \/ \E ai_response \in Completions : GenerationReturnsOn(req, ai_response)

\* C30: handling a speech event changes no session's status, nor active_calls,
\* nor call_records, and what it does to the stored turns is appending: the
\* turns stored before each of its steps are an initial part of the turns stored
\* after it.
C30_SpeechOnlyAppends ==
    [][HandleResponseStep =>
          /\ UNCHANGED <<call_history, active_calls, call_records>>
          /\ \A c \in DOMAIN conversation_memory :
                /\ c \in DOMAIN conversation_memory'
                /\ IsPrefix(conversation_memory[c], conversation_memory'[c])]_vars

\* C31: a speech event for a call whose session is terminal, or that has no
\* session in call_history, stores no turn and starts no generation.
C31_SpeechOnlyWhileActive ==
    [][\A call_id \in KnownCalls, SpeechResult \in SpeechResults :
          (/\ HandleResponseOn(call_id, SpeechResult)
           /\ \/ call_id \notin DOMAIN call_history
              \/ IsTerminal(call_history, call_id)) =>
             UNCHANGED <<conversation_memory, inflight>>]_vars

\* the caller turn handle_call_response stores for a SpeechResult
CallerTurnFor(SpeechResult) ==
    Turn(CallerName, IF SpeechResult = "" THEN Placeholder ELSE SpeechResult)

C33_AgentTurnReturned ==
    [][\A req \in Requests, ai_response \in Completions :
          (/\ GenerationReturnsOn(req, ai_response)
           /\ req.route = "handle_response"
           /\ req.call_id \in DOMAIN conversation_memory) =>
             /\ conversation_memory'[req.call_id] =
                   Append(conversation_memory[req.call_id], Turn(AgentName, ai_response))
             /\ response'.code = "200"
             /\ response'.say = ai_response]_vars

\* the turns of one speaker, in order
TurnsOf(conversation, speaker) ==
    LET kept == {i \in 1..Len(conversation) : conversation[i].speaker = speaker}
        RECURSIVE Pick(_)
        Pick(i) == IF i > Len(conversation) THEN <<>>
                   ELSE IF i \in kept THEN <<conversation[i]>> \o Pick(i + 1)
                   ELSE Pick(i + 1)
    IN Pick(1)

\* C34: the signals of an analysed conversation are decided by speaker:
\* positive_response and negative_response are those of the caller's turns
\* alone, meeting_scheduled is that of the agent's turns alone, so no agent turn
\* bears on the first two and no caller turn on the third.  (Each conversation
\* is compared once, in the state where only the outcome has been computed.)
C34_SignalsBySpeaker ==
    LET result == analysis.outcome
        of_caller == analyze_conversation_outcome(TurnsOf(Turns(ScriptId), CallerName))
        of_agent == analyze_conversation_outcome(TurnsOf(Turns(ScriptId), AgentName))
    IN (result.outcome # "pending" /\ analysis.meeting_time = NotAnalysed.meeting_time) =>
          /\ result.positive_response = of_caller.positive_response
          /\ result.negative_response = of_caller.negative_response
          /\ result.meeting_scheduled = of_agent.meeting_scheduled

\* C34 witness: the caller said "tomorrow", a meeting keyword, and the agent
\* used positive keywords only in a turn with no caller agreement: the analysis
\* reports a positive caller and no meeting.
C34_Witness ==
    /\ Turns(ScriptId) = <<Turn(CallerName, "tomorrow at 3 PM would work"),
                           Turn(AgentName, "What amount are you considering?")>>
    /\ analysis.outcome.positive_response
    /\ ~analysis.outcome.meeting_scheduled
    /\ analysis.meeting_time = NotAnalysed.meeting_time

\* the conversation memory with the turns of every call but one erased
OwnTurnsOnly(memory, call_id) ==
    IF call_id \in DOMAIN memory THEN Put(EmptyDict, call_id, memory[call_id])
    ELSE EmptyDict

\* C35: what is computed for a call depends on that call's turns only: a
\* generation request sent in a step (its turn count, prompt stage and
\* messages) is the request the call's own turns give with every other call's
\* turns erased, and an outcome computed for a call is the outcome of its own
\* turns; so runs that differ in another call's turns agree on all three.
C35_NoCrossSessionMemory ==
    [][/\ \A req \in BagToSet(inflight') :
             (req.at = "openai" /\ CopiesIn(req, inflight') > CopiesIn(req, inflight)) =>
                req = Request(req.route, req.call_id,
                              OwnTurnsOnly(conversation_memory', req.call_id))
       /\ \A call_id \in KnownCalls :
             AnalyzeOutcomeOn(call_id) =>
                analysis'.outcome =
                   analyze_conversation_outcome(
                      Get(OwnTurnsOnly(conversation_memory, call_id), call_id, <<>>))]_vars

\* C35 witness: a first generation is under way for a call with no turns, with
\* the opening prompt, while another call has two turns stored, and the outcome
\* of that other call has been computed from its two turns.
C35_Witness ==
    \E req \in Requests :
        /\ req.at = "openai"
        /\ req.route = "handle_call"
        /\ req.n = 0
        /\ req.prompt = "opening"
        /\ \E other \in DOMAIN conversation_memory :
              /\ other # req.call_id
              /\ Len(conversation_memory[other]) = 2
        /\ analysis.outcome.outcome # "pending"
        /\ analysis.outcome.conversation_length = 2

\* C36: make_call returns True when the provider accepted the dial: when it
\* returns after an accepted dial, the session is in call_history and in
\* active_calls with status 'initiated' and the provider's sid, the initial
\* record is in call_records, and the value returned is True.
C36_TrueWhenAccepted ==
    [][\A success \in BOOLEAN :
          MakeCallSaveReturns(success) =>
             /\ mon.call_id \in DOMAIN call_history'
             /\ call_history'[mon.call_id].call_sid = mon.call_sid
             /\ mon.call_id \in active_calls'
             /\ mon.call_id \in DOMAIN call_records'
             /\ call_records'[mon.call_id].status = "initiated"
             /\ success = TRUE]_vars

\* C37: every call in active_calls has a session in call_history, and that
\* session's status is not terminal.
C37_ActiveConsistent ==
    \A c \in active_calls :
        /\ c \in DOMAIN call_history
        /\ ~IsTerminal(call_history, c)

\* C38: when make_call registers its session under a call_id for which a
\* webhook has already left an entry in call_history (created by handle_call,
\* its status possibly set by handle_call_status), that entry and its status
\* are not overwritten.
C38_RegistrationKeepsWebhookState ==
    [][(/\ mon.pc = "dialed"
        /\ mon'.pc = "stored"
        /\ mon.call_id \in DOMAIN call_history) =>
          /\ call_history'[mon.call_id] = call_history[mon.call_id]
          /\ StatusOf(call_history', mon.call_id) = StatusOf(call_history, mon.call_id)]_vars

\* C39: in the webhook flow of a call (handle_call once, then handle_response
\* after each answer, every generation succeeding) the generation of handle_call
\* finds no turn and uses the opening prompt; the first handle_response finds 2
\* turns and uses the qualification prompt; every later one finds 4 turns or
\* more and uses the scheduling prompt.
C39_StagesAlongFlow ==
    [][\A req \in BagToSet(inflight') :
          (req.at = "openai" /\ CopiesIn(req, inflight') > CopiesIn(req, inflight)) =>
             /\ (req.prompt = "opening") = (req.route = "handle_call")
             /\ req.route = "handle_call" => req.n = 0
             /\ req.route = "handle_response" =>
                   /\ req.n >= 2
                   /\ req.n % 2 = 0
                   /\ (req.prompt = "qualification") = (req.n = 2)
                   /\ (req.prompt = "scheduling") = (req.n >= 4)]_vars

\* C39 witness: the second handle_response of a call is being answered: four
\* turns are stored and the scheduling prompt is used.
C39_Witness ==
    \E req \in Requests :
        /\ req.route = "handle_response"
        /\ req.at = "openai"
        /\ req.n = 4
        /\ req.prompt = "scheduling"
        /\ Len(Turns(req.call_id)) = 4
        /\ Turns(req.call_id)[1].speaker = AgentName

====
